---- MODULE Spec2Model ----
(***************************************************************************)
(* Model of src/json/mesh.rs of the gltf crate: the decoders of a mesh's   *)
(* rendering mode (Checked<Mode>), of vertex attribute semantic names      *)
(* (Checked<Semantic>), and of the Primitive and Mesh structs.             *)
(*                                                                         *)
(* Strings are sequences of one-character strings.  A u32 is a pair        *)
(* <<hi, lo>> of 16-bit limbs (value hi * 2^16 + lo), so that the index    *)
(* type keeps its 32-bit width.                                            *)
(*                                                                         *)
(* Every decode is a pure function of its input: a behaviour is one call,  *)
(* whose input Init draws and whose result one action computes.            *)
(***************************************************************************)
EXTENDS Integers, Sequences, FiniteSets

VARIABLES
    feature_extras,   \* cfg(feature = "extras") of the build
    feature_names,    \* cfg(feature = "names") of the build
    op,               \* the call: "Mode", "Semantic", "to_string", "Primitive", "Mesh"
    input,            \* the call's input
    output,           \* the call's result, once it has returned
    pc                \* "call" before the call has run, "return" after

vars == <<feature_extras, feature_names, op, input, output, pc>>

----------------------------------------------------------------------------
(* Bounds of the inputs.                                                   *)

MaxModeCode == 8
MaxLen == 3
MaxIndex == 12
MaxAttrs == 3
MaxPrimitives == 2

----------------------------------------------------------------------------
(* Option and Result.                                                      *)

None == [some |-> FALSE]
Some(v) == [some |-> TRUE, value |-> v]

Ok(v) == [ok |-> TRUE, value |-> v]
Err(e) == [ok |-> FALSE, error |-> e]

\* The output of a call that has not returned.
Pending == [pending |-> TRUE]

----------------------------------------------------------------------------
(* validation::Checked, as mesh.rs constructs and matches it.              *)

Valid(v) == [tag |-> "Valid", value |-> v]
Invalid == [tag |-> "Invalid"]

----------------------------------------------------------------------------
(* Rendering modes.                                                        *)

POINTS == 0
LINES == 1
LINE_LOOP == 2
LINE_STRIP == 3
TRIANGLES == 4
TRIANGLE_STRIP == 5
TRIANGLE_FAN == 6

VALID_MODES == <<POINTS, LINES, LINE_LOOP, LINE_STRIP, TRIANGLES, TRIANGLE_STRIP, TRIANGLE_FAN>>

\* enum Mode: the variants in declaration order, the first with an explicit
\* discriminant, each later one the previous plus one.
ModeVariants == <<"Points", "Lines", "LineLoop", "LineStrip", "Triangles", "TriangleStrip", "TriangleFan">>

Mode == {ModeVariants[i] : i \in 1..Len(ModeVariants)}

FirstDiscriminant == 1

Discriminant(m) == FirstDiscriminant + (CHOOSE i \in 1..Len(ModeVariants) : ModeVariants[i] = m) - 1

\* Default for Mode as the first variant.
Mode_default_first == "Points"

\* impl Default for Mode
Mode_default == "Triangles"

\* visit_u32 with the default substituted for an unknown code.
visit_u32_defaulting(value) ==
    CASE value = POINTS -> Valid("Points")
      [] value = LINES -> Valid("Lines")
      [] value = LINE_LOOP -> Valid("LineLoop")
      [] value = LINE_STRIP -> Valid("LineStrip")
      [] value = TRIANGLES -> Valid("Triangles")
      [] value = TRIANGLE_STRIP -> Valid("TriangleStrip")
      [] value = TRIANGLE_FAN -> Valid("TriangleFan")
      [] OTHER -> Valid(Mode_default)

\* Visitor::visit_u32 of Checked<Mode>
visit_u32(value) ==
    CASE value = POINTS -> Valid("Points")
      [] value = LINES -> Valid("Lines")
      [] value = LINE_LOOP -> Valid("LineLoop")
      [] value = LINE_STRIP -> Valid("LineStrip")
      [] value = TRIANGLES -> Valid("Triangles")
      [] value = TRIANGLE_STRIP -> Valid("TriangleStrip")
      [] value = TRIANGLE_FAN -> Valid("TriangleFan")
      [] OTHER -> Invalid

\* Deserialize for Checked<Mode>: deserialize_u32 hands the u32 to visit_u32.
Mode_deserialize(value) == Ok(visit_u32(value))

----------------------------------------------------------------------------
(* u32 arithmetic on 16-bit limbs.                                         *)

Limb == 2^16

U32(n) == <<n \div Limb, n % Limb>>

U32_MAX == <<Limb - 1, Limb - 1>>

\* u32::checked_mul(result, 10)
checked_mul10(n) ==
    LET lo == n[2] * 10
        hi == n[1] * 10 + (lo \div Limb)
    IN  IF hi >= Limb THEN None ELSE Some(<<hi, lo % Limb>>)

\* u32::checked_add(result, x), x a digit
checked_add(n, x) ==
    LET lo == n[2] + x
        hi == n[1] + (lo \div Limb)
    IN  IF hi >= Limb THEN None ELSE Some(<<hi, lo % Limb>>)

\* n / 10 and n % 10
DivRem10(n) ==
    LET t == (n[1] % 10) * Limb + n[2]
    IN  [quot |-> <<n[1] \div 10, t \div 10>>, rem |-> t % 10]

DigitChars == <<"0", "1", "2", "3", "4", "5", "6", "7", "8", "9">>

\* char::to_digit(10)
to_digit(c) ==
    IF \E i \in 1..10 : DigitChars[i] = c
    THEN Some((CHOOSE i \in 1..10 : DigitChars[i] = c) - 1)
    ELSE None

\* The digit loop of from_str_radix.
RECURSIVE ParseDigits(_, _)
ParseDigits(digits, result) ==
    IF digits = <<>> THEN Ok(result)
    ELSE LET x == to_digit(Head(digits))
         IN  IF ~x.some THEN Err("InvalidDigit")
             ELSE LET m == checked_mul10(result)
                  IN  IF ~m.some THEN Err("Overflow")
                      ELSE LET a == checked_add(m.value, x.value)
                           IN  IF ~a.some THEN Err("Overflow")
                               ELSE ParseDigits(Tail(digits), a.value)

\* str::parse::<u32>: an optional '+', then one or more decimal digits.
parse_u32(src) ==
    IF src = <<>> THEN Err("Empty")
    ELSE LET digits == IF Head(src) = "+" THEN Tail(src) ELSE src
         IN  IF digits = <<>> THEN Err("Empty")
             ELSE ParseDigits(digits, U32(0))

\* Display for u32, as format!("{}", set) renders it.
RECURSIVE fmt_u32(_)
fmt_u32(n) ==
    IF n[1] = 0 /\ n[2] < 10 THEN <<DigitChars[n[2] + 1]>>
    ELSE LET d == DivRem10(n)
         IN  fmt_u32(d.quot) \o <<DigitChars[d.rem + 1]>>

----------------------------------------------------------------------------
(* Semantic names.                                                         *)

S_POSITION == <<"P", "O", "S", "I", "T", "I", "O", "N">>
S_NORMAL == <<"N", "O", "R", "M", "A", "L">>
S_TANGENT == <<"T", "A", "N", "G", "E", "N", "T">>
S_COLOR_ == <<"C", "O", "L", "O", "R", "_">>
S_TEXCOORD_ == <<"T", "E", "X", "C", "O", "O", "R", "D", "_">>
S_JOINTS_ == <<"J", "O", "I", "N", "T", "S", "_">>
S_WEIGHTS_ == <<"W", "E", "I", "G", "H", "T", "S", "_">>
S_UNDERSCORE == <<"_">>
S_INVALID_NAME == <<"<", "i", "n", "v", "a", "l", "i", "d", " ", "s", "e", "m", "a", "n", "t", "i", "c",
                    " ", "n", "a", "m", "e", ">">>

VALID_MORPH_TARGETS == <<S_POSITION, S_NORMAL, S_TANGENT>>

\* enum Semantic
Positions == [kind |-> "Positions"]
Normals == [kind |-> "Normals"]
Tangents == [kind |-> "Tangents"]
Colors(set) == [kind |-> "Colors", set |-> set]
TexCoords(set) == [kind |-> "TexCoords", set |-> set]
Joints(set) == [kind |-> "Joints", set |-> set]
Weights(set) == [kind |-> "Weights", set |-> set]
Extras(name) == [kind |-> "Extras", name |-> name]

starts_with(s, p) == Len(s) >= Len(p) /\ SubSeq(s, 1, Len(p)) = p

\* s[n..]
SliceFrom(s, n) == SubSeq(s, n + 1, Len(s))

\* Semantic::checked with the TEXCOORD_ arm building the COLOR_ arm's variant.
checked_texcoord_as_color(s) ==
    CASE s = S_NORMAL -> Valid(Normals)
      [] s = S_POSITION -> Valid(Positions)
      [] s = S_TANGENT -> Valid(Tangents)
      [] OTHER ->
         IF feature_extras /\ starts_with(s, S_UNDERSCORE) THEN Valid(Extras(SliceFrom(s, 1)))
         ELSE IF starts_with(s, S_COLOR_) THEN
             LET r == parse_u32(SliceFrom(s, Len(S_COLOR_)))
             IN  IF r.ok THEN Valid(Colors(r.value)) ELSE Invalid
         ELSE IF starts_with(s, S_TEXCOORD_) THEN
             LET r == parse_u32(SliceFrom(s, Len(S_TEXCOORD_)))
             IN  IF r.ok THEN Valid(Colors(r.value)) ELSE Invalid
         ELSE IF starts_with(s, S_JOINTS_) THEN
             LET r == parse_u32(SliceFrom(s, Len(S_JOINTS_)))
             IN  IF r.ok THEN Valid(Joints(r.value)) ELSE Invalid
         ELSE IF starts_with(s, S_WEIGHTS_) THEN
             LET r == parse_u32(SliceFrom(s, Len(S_WEIGHTS_)))
             IN  IF r.ok THEN Valid(Weights(r.value)) ELSE Invalid
         ELSE Invalid

\* Semantic::checked
checked(s) ==
    CASE s = S_NORMAL -> Valid(Normals)
      [] s = S_POSITION -> Valid(Positions)
      [] s = S_TANGENT -> Valid(Tangents)
      [] OTHER ->
         IF feature_extras /\ starts_with(s, S_UNDERSCORE) THEN Valid(Extras(SliceFrom(s, 1)))
         ELSE IF starts_with(s, S_COLOR_) THEN
             LET r == parse_u32(SliceFrom(s, Len(S_COLOR_)))
             IN  IF r.ok THEN Valid(Colors(r.value)) ELSE Invalid
         ELSE IF starts_with(s, S_TEXCOORD_) THEN
             LET r == parse_u32(SliceFrom(s, Len(S_TEXCOORD_)))
             IN  IF r.ok THEN Valid(TexCoords(r.value)) ELSE Invalid
         ELSE IF starts_with(s, S_JOINTS_) THEN
             LET r == parse_u32(SliceFrom(s, Len(S_JOINTS_)))
             IN  IF r.ok THEN Valid(Joints(r.value)) ELSE Invalid
         ELSE IF starts_with(s, S_WEIGHTS_) THEN
             LET r == parse_u32(SliceFrom(s, Len(S_WEIGHTS_)))
             IN  IF r.ok THEN Valid(Weights(r.value)) ELSE Invalid
         ELSE Invalid

\* to_string with the prefixes of Joints and Weights exchanged.
Semantic_to_string_swapped(v) ==
    CASE v.kind = "Positions" -> S_POSITION
      [] v.kind = "Normals" -> S_NORMAL
      [] v.kind = "Tangents" -> S_TANGENT
      [] v.kind = "Colors" -> S_COLOR_ \o fmt_u32(v.set)
      [] v.kind = "TexCoords" -> S_TEXCOORD_ \o fmt_u32(v.set)
      [] v.kind = "Joints" -> S_WEIGHTS_ \o fmt_u32(v.set)
      [] v.kind = "Weights" -> S_JOINTS_ \o fmt_u32(v.set)
      [] v.kind = "Extras" -> S_UNDERSCORE \o v.name

\* impl ToString for Semantic
Semantic_to_string(v) ==
    CASE v.kind = "Positions" -> S_POSITION
      [] v.kind = "Normals" -> S_NORMAL
      [] v.kind = "Tangents" -> S_TANGENT
      [] v.kind = "Colors" -> S_COLOR_ \o fmt_u32(v.set)
      [] v.kind = "TexCoords" -> S_TEXCOORD_ \o fmt_u32(v.set)
      [] v.kind = "Joints" -> S_JOINTS_ \o fmt_u32(v.set)
      [] v.kind = "Weights" -> S_WEIGHTS_ \o fmt_u32(v.set)
      [] v.kind = "Extras" -> S_UNDERSCORE \o v.name

\* impl ToString for Checked<Semantic>
Checked_to_string(c) ==
    IF c.tag = "Valid" THEN Semantic_to_string(c.value) ELSE S_INVALID_NAME

\* Deserialize for Checked<Semantic>: deserialize_str hands the string to visit_str.
Semantic_deserialize(value) == Ok(checked(value))

----------------------------------------------------------------------------
(* The structs.  An input object gives each field as None (absent) or      *)
(* Some(raw value).                                                        *)

missing_field(name) == [kind |-> "missing_field", field |-> name]

\* Default for Checked<T>, which #[serde(default)] calls for an absent mode.
Checked_default(d) == Valid(d)

\* An insert that leaves an entry already under the key as it is.
HashMap_insert_keeps_first(map, k, v) ==
    IF \E e \in map : e.key = k THEN map ELSE map \cup {[key |-> k, value |-> v]}

\* HashMap::insert on a map held as its set of entries: an entry whose key
\* equals k has its value replaced.
HashMap_insert(map, k, v) == {e \in map : e.key # k} \cup {[key |-> k, value |-> v]}

\* Deserialize for HashMap<Checked<Semantic>, Index<Accessor>>: each entry of
\* the input mapping, in input order, has its key decoded and is inserted.
RECURSIVE HashMap_deserialize(_, _)
HashMap_deserialize(entries, map) ==
    IF entries = <<>> THEN Ok(map)
    ELSE LET k == Semantic_deserialize(Head(entries).key)
         IN  IF ~k.ok THEN k
             ELSE HashMap_deserialize(Tail(entries),
                                      HashMap_insert(map, k.value, Head(entries).value))

\* struct PrimitiveExtensions / MeshExtensions: unknown nested fields are dropped.
PrimitiveExtensions == [allow_unknown_fields |-> <<>>]
MeshExtensions == [allow_unknown_fields |-> <<>>]

\* #[derive(Deserialize)] struct Primitive
Primitive_deserialize(p) ==
    IF ~p.attributes.some THEN Err(missing_field("attributes"))
    ELSE LET attributes == HashMap_deserialize(p.attributes.value, {})
             mode == IF p.mode.some THEN Mode_deserialize(p.mode.value)
                     ELSE Ok(Checked_default(Mode_default))
         IN  IF ~attributes.ok THEN attributes
             ELSE IF ~mode.ok THEN mode
             ELSE Ok([attributes |-> attributes.value,
                      extensions |-> PrimitiveExtensions,
                      extras |-> p.extras,
                      indices |-> p.indices,
                      material |-> p.material,
                      mode |-> mode.value,
                      targets |-> p.targets])

\* Deserialize for Vec<Primitive>: the first element that fails ends the decode.
RECURSIVE Vec_deserialize(_, _)
Vec_deserialize(elems, acc) ==
    IF elems = <<>> THEN Ok(acc)
    ELSE LET e == Primitive_deserialize(Head(elems))
         IN  IF ~e.ok THEN e ELSE Vec_deserialize(Tail(elems), Append(acc, e.value))

\* Mesh with its primitives field defaulted to the empty sequence when absent.
Mesh_deserialize_primitives_defaulted(m) ==
    LET primitives == IF m.primitives.some THEN Vec_deserialize(m.primitives.value, <<>>)
                      ELSE Ok(<<>>)
    IN  IF ~primitives.ok THEN primitives
        ELSE IF feature_names
             THEN Ok([extensions |-> MeshExtensions,
                      extras |-> m.extras,
                      name |-> m.name,
                      primitives |-> primitives.value,
                      weights |-> m.weights])
             ELSE Ok([extensions |-> MeshExtensions,
                      extras |-> m.extras,
                      primitives |-> primitives.value,
                      weights |-> m.weights])

\* #[derive(Deserialize)] struct Mesh; the name field exists under feature "names".
Mesh_deserialize(m) ==
    IF ~m.primitives.some THEN Err(missing_field("primitives"))
    ELSE LET primitives == Vec_deserialize(m.primitives.value, <<>>)
         IN  IF ~primitives.ok THEN primitives
             ELSE IF feature_names
                  THEN Ok([extensions |-> MeshExtensions,
                           extras |-> m.extras,
                           name |-> m.name,
                           primitives |-> primitives.value,
                           weights |-> m.weights])
                  ELSE Ok([extensions |-> MeshExtensions,
                           extras |-> m.extras,
                           primitives |-> primitives.value,
                           weights |-> m.weights])

----------------------------------------------------------------------------
(* The inputs of a call.                                                   *)

SeqsUpTo(S, n) == UNION {[1..k -> S] : k \in 0..n}

Digits(ds) == [i \in DOMAIN ds |-> DigitChars[ds[i] + 1]]

S_FOOBAR == <<"F", "O", "O", "B", "A", "R">>
S_FOO == <<"F", "O", "O">>
S_BAR == <<"B", "A", "R">>
S_COLOR == <<"C", "O", "L", "O", "R">>

ModeInputs == 0..MaxModeCode

RemainderChars == {"0", "1", "2", "3", "+", "-", " ", "a"}

\* Numerals around the ends of the u32 range, which no short remainder reaches.
LongRemainders ==
    { Digits(<<4, 2, 9, 4, 9, 6, 7, 2, 9, 5>>),
      Digits(<<4, 2, 9, 4, 9, 6, 7, 2, 9, 6>>),
      Digits(<<4, 2, 9, 4, 9, 6, 7, 3, 0, 0>>),
      Digits(<<0, 4, 2, 9, 4, 9, 6, 7, 2, 9, 5>>),
      <<"+">> \o Digits(<<4, 2, 9, 4, 9, 6, 7, 2, 9, 5>>),
      Digits(<<4, 2, 9, 4, 9, 6, 7, 2, 9, 5, 0>>),
      Digits(<<6, 5, 5, 3, 5>>),
      Digits(<<6, 5, 5, 3, 6>>),
      Digits(<<0, 0, 0, 0, 0, 0, 0, 0, 0, 0, 0, 7>>) }

Remainders == SeqsUpTo(RemainderChars, MaxLen) \cup LongRemainders

IndexedPrefixes == {S_COLOR_, S_TEXCOORD_, S_JOINTS_, S_WEIGHTS_}

NamePrefixes ==
    IndexedPrefixes \cup {S_POSITION, S_NORMAL, S_TANGENT, S_UNDERSCORE, S_COLOR, <<>>}

SemanticInputs ==
    {p \o r : p \in NamePrefixes, r \in Remainders} \cup {S_FOOBAR, S_INVALID_NAME}

IndexValues ==
    {U32(n) : n \in 0..MaxIndex}
        \cup {U32(99), U32(100), U32(65535), U32(65536), U32(1000000000), <<Limb - 1, 0>>, U32_MAX}

ExtraNames == {<<>>, <<"a">>, <<"_">>, S_COLOR_ \o <<"0">>, S_POSITION}

\* The values of Semantic the build has: Extras only under feature "extras".
SemanticValues(extras) ==
    {Positions, Normals, Tangents}
        \cup {Colors(n) : n \in IndexValues} \cup {TexCoords(n) : n \in IndexValues}
        \cup {Joints(n) : n \in IndexValues} \cup {Weights(n) : n \in IndexValues}
        \cup (IF extras THEN {Extras(name) : name \in ExtraNames} ELSE {})

ToStringInputs(extras) == {Valid(v) : v \in SemanticValues(extras)} \cup {Invalid}

AttrKeys == {S_COLOR_ \o <<"0">>, S_COLOR_ \o <<"0", "0">>, S_FOO, S_BAR}

\* Index<Accessor> values: two accessors, so that entries under one key differ.
AccessorRefs == {0, 1}

AttrEntries == [key : AttrKeys, value : AccessorRefs]

\* The fields no decoder of this file looks into: all absent, or all present.
OptionalFields ==
    { [extensions |-> None, extras |-> None, indices |-> None, material |-> None, targets |-> None],
      [extensions |-> Some({"KHR_unknown"}), extras |-> Some("data"), indices |-> Some(0),
       material |-> Some(0), targets |-> Some(<<>>)] }

PrimitiveInput(attributes, mode, rest) ==
    [attributes |-> attributes, extensions |-> rest.extensions, extras |-> rest.extras,
     indices |-> rest.indices, material |-> rest.material, mode |-> mode, targets |-> rest.targets]

PrimitiveInputs ==
    { PrimitiveInput(a, m, rest) :
        a \in {None} \cup {Some(es) : es \in SeqsUpTo(AttrEntries, MaxAttrs)},
        m \in {None, Some(POINTS), Some(TRIANGLE_FAN + 1)},
        rest \in OptionalFields }

\* The primitives a mesh input lists.
MeshPrimitives ==
    { PrimitiveInput(a, m, rest) :
        a \in {None, Some(<<>>), Some(<<[key |-> S_FOO, value |-> 0], [key |-> S_BAR, value |-> 1]>>)},
        m \in {None, Some(TRIANGLE_FAN + 1)},
        rest \in {CHOOSE f \in OptionalFields : ~f.indices.some} }

MeshInputs ==
    [ extensions : {None, Some({"KHR_unknown"})},
      extras : {None, Some("data")},
      name : {None, Some(<<"m">>)},
      primitives : {None} \cup {Some(ps) : ps \in SeqsUpTo(MeshPrimitives, MaxPrimitives)},
      weights : {None, Some(<<>>)} ]

Ops == {"Mode", "Semantic", "to_string", "Primitive", "Mesh"}

Inputs(o, extras) ==
    CASE o = "Mode" -> ModeInputs
      [] o = "Semantic" -> SemanticInputs
      [] o = "to_string" -> ToStringInputs(extras)
      [] o = "Primitive" -> PrimitiveInputs
      [] o = "Mesh" -> MeshInputs

----------------------------------------------------------------------------
(* The state machine: one call, from its input to its result.              *)

Init ==
    /\ feature_extras \in BOOLEAN
    /\ feature_names \in BOOLEAN
    /\ op \in Ops
    /\ input \in Inputs(op, feature_extras)
    /\ output = Pending
    /\ pc = "call"

DeserializeMode ==
    /\ op = "Mode"
    /\ pc = "call"
    /\ pc' = "return"
    /\ output' = Mode_deserialize(input)
    /\ UNCHANGED <<feature_extras, feature_names, op, input>>

DeserializeSemantic ==
    /\ op = "Semantic"
    /\ pc = "call"
    /\ pc' = "return"
    /\ output' = Semantic_deserialize(input)
    /\ UNCHANGED <<feature_extras, feature_names, op, input>>

ToString ==
    /\ op = "to_string"
    /\ pc = "call"
    /\ pc' = "return"
    /\ output' = Checked_to_string(input)
    /\ UNCHANGED <<feature_extras, feature_names, op, input>>

DeserializePrimitive ==
    /\ op = "Primitive"
    /\ pc = "call"
    /\ pc' = "return"
    /\ output' = Primitive_deserialize(input)
    /\ UNCHANGED <<feature_extras, feature_names, op, input>>

DeserializeMesh ==
    /\ op = "Mesh"
    /\ pc = "call"
    /\ pc' = "return"
    /\ output' = Mesh_deserialize(input)
    /\ UNCHANGED <<feature_extras, feature_names, op, input>>

Next ==
    \/ DeserializeMode
    \/ DeserializeSemantic
    \/ ToString
    \/ DeserializePrimitive
    \/ DeserializeMesh

Spec == Init /\ [][Next]_vars

----------------------------------------------------------------------------
(* What the properties below say about a name, stated on its characters.   *)

IsDigit(c) == \E i \in 1..10 : DigitChars[i] = c

AllDigits(r) == r # <<>> /\ \A i \in 1..Len(r) : IsDigit(r[i])

DigitValue(c) == (CHOOSE i \in 1..10 : DigitChars[i] = c) - 1

RECURSIVE StripZeros(_)
StripZeros(r) == IF Len(r) > 1 /\ Head(r) = "0" THEN StripZeros(Tail(r)) ELSE r

\* A numeral as the decimal notation writes a number: digits, no leading zero.
CanonicalNumeral(r) == AllDigits(r) /\ StripZeros(r) = r

\* a <= b, for canonical numerals of the same length
RECURSIVE NumeralLE(_, _)
NumeralLE(a, b) ==
    \/ a = <<>>
    \/ DigitValue(Head(a)) < DigitValue(Head(b))
    \/ Head(a) = Head(b) /\ NumeralLE(Tail(a), Tail(b))

U32MaxNumeral == Digits(<<4, 2, 9, 4, 9, 6, 7, 2, 9, 5>>)

\* The digit string r denotes a number the index type holds.
InIndexRange(r) ==
    LET c == StripZeros(r)
    IN  \/ Len(c) < Len(U32MaxNumeral)
        \/ Len(c) = Len(U32MaxNumeral) /\ NumeralLE(c, U32MaxNumeral)

HasIndexedPrefix(s) == \E p \in IndexedPrefixes : starts_with(s, p)

PrefixOf(s) == CHOOSE p \in IndexedPrefixes : starts_with(s, p)

RemainderOf(s) == SliceFrom(s, Len(PrefixOf(s)))

KindOfPrefix(p) ==
    CASE p = S_COLOR_ -> "Colors"
      [] p = S_TEXCOORD_ -> "TexCoords"
      [] p = S_JOINTS_ -> "Joints"
      [] p = S_WEIGHTS_ -> "Weights"

\* The name is one an encoder writes: an indexed name carries a canonical numeral.
CanonicalName(s) == HasIndexedPrefix(s) => CanonicalNumeral(RemainderOf(s))

SemanticReturned == op = "Semantic" /\ pc = "return"

ModeReturned == op = "Mode" /\ pc = "return"

ToStringReturned == op = "to_string" /\ pc = "return"

PrimitiveReturned == op = "Primitive" /\ pc = "return"

MeshReturned == op = "Mesh" /\ pc = "return"

\* The variant the format numbers c, for c in 0..6.
VariantOfCode(c) == ModeVariants[c + 1]

\* The keys the entries es decode to, in input order.
DecodedKeys(es) == [i \in 1..Len(es) |-> checked(es[i].key)]

\* The last position of ks that holds the key ks[i].
LastWithKey(ks, i) ==
    CHOOSE j \in i..Len(ks) : ks[j] = ks[i] /\ \A k \in (j + 1)..Len(ks) : ks[k] # ks[i]

----------------------------------------------------------------------------
(* The properties.                                                         *)

\* C1: decoding a mode from the raw integer c succeeds and yields Valid of the
\* c-th variant (Points, Lines, LineLoop, LineStrip, Triangles, TriangleStrip,
\* TriangleFan) for c in 0..6 and Invalid for every other c, alone and as the
\* mode field of a primitive: no error, no default in place of an unknown code.
C1_ModeDecode ==
    /\ ModeReturned =>
          output = Ok(IF input \in 0..6 THEN Valid(VariantOfCode(input)) ELSE Invalid)
    /\ (PrimitiveReturned /\ input.attributes.some /\ input.mode.some) =>
          /\ output.ok
          /\ output.value.mode = (IF input.mode.value \in 0..6
                                  THEN Valid(VariantOfCode(input.mode.value)) ELSE Invalid)

C1_Witness == ModeReturned /\ input = 7 /\ output = Ok(Invalid)

\* C2: for an attributes mapping with pairwise distinct string keys, the decode
\* reports no error and the decoded map has one entry per input pair, each with
\* its accessor reference, the pairs whose key decodes to Invalid included.
C2_RetainsEveryPair ==
    (PrimitiveReturned /\ input.attributes.some) =>
        LET es == input.attributes.value
        IN  (\A i, j \in 1..Len(es) : es[i].key = es[j].key => i = j) =>
               /\ output.ok
               /\ Cardinality(output.value.attributes) = Len(es)
               /\ \A i \in 1..Len(es) :
                     [key |-> checked(es[i].key), value |-> es[i].value] \in output.value.attributes

\* C3: an indexed prefix followed by r decodes to Valid of the prefix's variant
\* with index n when r is the decimal numeral of an n the index type holds, and
\* to Invalid when r is empty, contains a non-digit or overflows the index type;
\* "FOOBAR" decodes to Invalid; the decode never fails.
C3_IndexedNames ==
    SemanticReturned =>
        /\ output.ok
        /\ input = S_FOOBAR => output.value = Invalid
        /\ HasIndexedPrefix(input) =>
              LET r == RemainderOf(input)
              IN  IF AllDigits(r) /\ InIndexRange(r)
                  THEN /\ output.value.tag = "Valid"
                       /\ output.value.value.kind = KindOfPrefix(PrefixOf(input))
                       /\ fmt_u32(output.value.value.set) = StripZeros(r)
                  ELSE output.value = Invalid

\* C4: a name with an indexed prefix decodes to a Valid value only if what
\* follows the prefix consists solely of decimal digits.
C4_DigitsOnly ==
    (SemanticReturned /\ HasIndexedPrefix(input) /\ output.value.tag = "Valid") =>
        AllDigits(RemainderOf(input))

\* C5 as stated: every string s that decodes to Valid(v) has to_string(v) = s.
C5_EncodeInvertsDecode ==
    (SemanticReturned /\ output.value.tag = "Valid") =>
        Semantic_to_string(output.value.value) = input

\* C5 as amended: for every string s that decodes to Valid(v), to_string(v)
\* decodes to Valid(v) again, and to_string(v) = s exactly when s is a canonical
\* name: an exact name, an extra name, or an indexed prefix followed by digits
\* only with no leading zero (the sole "0" apart).
C5_EncodeInvertsDecodeOnCanonical ==
    (SemanticReturned /\ output.value.tag = "Valid") =>
        LET back == Semantic_to_string(output.value.value)
        IN  /\ checked(back) = output.value
            /\ back = input <=> CanonicalName(input)

C5_Witness ==
    /\ SemanticReturned
    /\ input = S_TEXCOORD_ \o <<"2">>
    /\ output = Ok(Valid(TexCoords(U32(2))))
    /\ Semantic_to_string(output.value.value) = input

\* C6 as stated: when the mode field is absent the decode of the primitive
\* succeeds with mode = Valid(Triangles).
C6_AbsentModeDecodes ==
    (PrimitiveReturned /\ ~input.mode.some) =>
        output.ok /\ output.value.mode = Valid("Triangles")

\* C6 as amended: when the mode field is absent and the required attributes
\* field is present, the decode of the primitive succeeds with mode =
\* Valid(Triangles); when attributes is absent as well, the decode fails on the
\* missing attributes field.
C6_AbsentModeIsTriangles ==
    (PrimitiveReturned /\ ~input.mode.some) =>
        IF input.attributes.some
        THEN output.ok /\ output.value.mode = Valid("Triangles")
        ELSE output = Err(missing_field("attributes"))

C6_Witness ==
    /\ PrimitiveReturned
    /\ ~input.mode.some
    /\ input.attributes.some
    /\ output.ok
    /\ output.value.mode = Valid("Triangles")

\* C7: for every code c in 0..6 the variant the decoder yields for c has the
\* numeric value c.
C7_DiscriminantIsCode ==
    (ModeReturned /\ input \in 0..6) =>
        /\ output.ok
        /\ output.value.tag = "Valid"
        /\ Discriminant(output.value.value) = input
        /\ Discriminant(output.value.value) = VALID_MODES[input + 1]

\* C8: a mesh input without the primitives field decodes to the error naming
\* that field, whatever its other fields are, and to no mesh; the absence of
\* extensions, extras, name or weights causes no error: a mesh input whose
\* primitives all carry their required attributes decodes.
C8_MissingPrimitives ==
    MeshReturned =>
        /\ ~input.primitives.some => output = Err(missing_field("primitives"))
        /\ (/\ input.primitives.some
            /\ \A i \in 1..Len(input.primitives.value) : input.primitives.value[i].attributes.some)
              => output.ok

C8_Witness ==
    /\ MeshReturned
    /\ ~input.primitives.some
    /\ input.extensions.some /\ input.extras.some /\ input.name.some /\ input.weights.some
    /\ output = Err(missing_field("primitives"))

\* C9: the keys of the decoded attribute map are pairwise distinct, and every
\* input entry's decoded key is in the map with the accessor reference of the
\* last input entry that decodes to that key, and the map holds nothing else.
C9_LastWriteWins ==
    (PrimitiveReturned /\ input.attributes.some) =>
        LET es == input.attributes.value
            ks == DecodedKeys(es)
            map == output.value.attributes
        IN  /\ output.ok
            /\ \A e1, e2 \in map : e1.key = e2.key => e1 = e2
            /\ \A i \in 1..Len(es) :
                  [key |-> ks[i], value |-> es[LastWithKey(ks, i)].value] \in map
            /\ \A e \in map : \E i \in 1..Len(es) : e.key = ks[i]

C9_Witness ==
    /\ PrimitiveReturned
    /\ input.attributes.some
    /\ Len(input.attributes.value) = 3
    /\ checked(input.attributes.value[1].key) = checked(input.attributes.value[3].key)
    /\ input.attributes.value[1].value # input.attributes.value[3].value
    /\ output.ok
    /\ Cardinality(output.value.attributes) = 2
    /\ [key |-> checked(input.attributes.value[3].key), value |-> input.attributes.value[3].value]
          \in output.value.attributes

\* C10: for every Semantic value v of the build, checked(to_string(v)) =
\* Valid(v), no other value has the string of v, and the placeholder rendered
\* for Invalid decodes to Invalid.
C10_DecodeInvertsEncode ==
    ToStringReturned =>
        /\ input.tag = "Valid" => output = Semantic_to_string(input.value)
        /\ input.tag = "Invalid" => output = S_INVALID_NAME
        /\ checked(output) = input
        /\ \A w \in ToStringInputs(feature_extras) : Checked_to_string(w) = output => w = input

C10_Witness ==
    /\ ToStringReturned
    /\ input = Valid(Weights(U32_MAX))
    /\ output = S_WEIGHTS_ \o U32MaxNumeral
    /\ checked(output) = input

====
